---------------------------- MODULE Spec2Model ----------------------------
(***************************************************************************)
(* Model of src/matvecmul.cpp: the matrix and vector structures with their *)
(* host array and accelerator mirror, the init kernels, the matvecmul      *)
(* kernel (gang loop over rows, vector reduction over columns) and main.   *)
(***************************************************************************)
EXTENDS Integers, Sequences, FiniteSets, TLC

(***************************************************************************)
(* Bounds of the model.                                                    *)
(***************************************************************************)
\* largest row count of a matrix under SpecMul and SpecFill
MaxRows == 2
\* largest column count of a matrix under SpecMul and SpecFill
MaxCols == 3
\* largest constructor argument under Spec
MaxDim == 1
\* calls the client makes between construction and destruction
MaxCalls == 2
\* gangs of a parallel region
NumGangs == 2
\* vector lanes of a gang
NumLanes == 2
\* significand bits of the scaled-down float format (binary32 has 24)
MantBits == 2
\* bits of the scaled-down int (int has 32); size_t holds every product of
\* two ints, as the 64-bit size_t does
IntBits == 4
\* largest constructor argument under SpecExtent
MaxSide == 4

\* the float values inputs are drawn from
Val == {1, 4}

Bufs == {"mat", "vec", "out"}
Vecs == {"vec", "out"}
Gangs == 1..NumGangs
Lanes == 1..NumLanes

(***************************************************************************)
(* float arithmetic: round to nearest, ties to even, on MantBits bits.     *)
(***************************************************************************)
RECURSIVE Pow2(_)
Pow2(k) == IF k = 0 THEN 1 ELSE 2 * Pow2(k - 1)

\* the distance between the floats around x
Ulp[x \in Int] == IF x < Pow2(MantBits) THEN 1 ELSE 2 * Ulp[x \div 2]

\* x rounded to the nearest float, a tie to the one with an even significand
RoundF[x \in Int] ==
  LET u  == Ulp[x]
      q  == x \div u
      lo == q * u
      r  == x - lo
  IN  IF 2 * r < u THEN lo
      ELSE IF 2 * r > u THEN lo + u
      ELSE IF q % 2 = 0 THEN lo ELSE lo + u

Round(x) == RoundF[x]

\* sum += ... on float operands
FAdd(a, b) == Round(a + b)
\* mat.at(i,j)*vec.at(j) on float operands
FMul(a, b) == Round(a * b)

(***************************************************************************)
(* Arrays are functions over 0..len-1.                                     *)
(***************************************************************************)
Arr(len, S) == [0..(len - 1) -> S]
Extent(a) == Cardinality(DOMAIN a)
Fill(len, v) == [k \in 0..(len - 1) |-> v]


(***************************************************************************)
(* State.                                                                  *)
(*   pc        where the host thread is: "run" between two statements, or  *)
(*             inside a constructor, a destructor, a kernel or check       *)
(*   stmt      the statement of main the host thread runs next             *)
(*   budget    calls the client may still make                             *)
(*   cur       the buffer the running constructor, destructor, init or     *)
(*             check works on                                              *)
(*   debug     whether the program was built with DEBUG defined            *)
(*   nx, ny    host fields of the matrix; n: host field of each vector     *)
(*   data      the host array of each buffer                               *)
(*   dev_data  the accelerator mirror of each array                        *)
(*   dev_this  the accelerator copy of each struct                         *)
(*   ptr       per buffer, the address of its host array (the member data)  *)
(*             and of its mirror; 0 before the allocation                  *)
(*   alloc     per buffer, whether its host array, its mirror and its      *)
(*             accelerator struct are "none" (not yet made), "live" or     *)
(*             "released"                                                  *)
(*   iters     iterations of the running init kernel not yet executed      *)
(*   val       the val argument of the running or last init call           *)
(*   rows      iterations of the gang loop no gang has taken yet           *)
(*   gang      per gang: position, row i, lane partials                    *)
(*   sum       the accumulator copies, by slot                             *)
(*   sterms    the terms <<i, j>> added into each accumulator copy         *)
(*   writes    stores made to out[i] by the running or last kernel         *)
(*   oterms    the terms contained in the value stored to out[i]           *)
(*   pre       arrays as they were when the last call was entered          *)
(*   last      the last call the host thread made, and how far it is       *)
(*   prev      the call made before that one                               *)
(*   compared  the calls of pgi_compare so far: the buffer, the host array *)
(*             and count handed to it, the accelerator copy at that time   *)
(*   cerr      the lines written to std::cerr so far                       *)
(*   seen      the last read the host thread made through at(): the buffer,*)
(*             the offset, the value, and the calls left when it was made  *)
(***************************************************************************)
VARIABLES pc, stmt, budget, cur, debug,
          nx, ny, n, data, dev_data, dev_this, alloc, ptr,
          iters, val,
          rows, gang, sum, sterms, writes, oterms,
          pre, last, prev, compared, cerr, seen

vars == <<pc, stmt, budget, cur, debug,
          nx, ny, n, data, dev_data, dev_this, alloc, ptr,
          iters, val,
          rows, gang, sum, sterms, writes, oterms,
          pre, last, prev, compared, cerr, seen>>

ctlvars == <<stmt, budget, debug>>
descvars == <<nx, ny, n, dev_this>>
memvars == <<data, dev_data>>
bufvars == <<nx, ny, n, data, dev_data, dev_this, alloc, ptr>>
initvars == <<iters, val>>
kernelvars == <<rows, gang, sum, sterms, writes, oterms>>
outvars == <<compared, cerr, seen>>
histvars == <<pre, last, prev, compared, cerr, seen>>

\* no read was made through at() yet
NoRead == [buf |-> "none", off |-> 0, val |-> 0, left |-> 0]

\* what a function declared void hands to its caller
Void == "void"

\* a call: res is how far it is, ret what the caller has received from it
NoCall == [op |-> "none", buf |-> "none", res |-> "done", v |-> 0,
           ret |-> "none"]
Call(op, b, v) == [op |-> op, buf |-> b, res |-> "running", v |-> v,
                   ret |-> "none"]
\* a call of a void function that returns in the step that enters it
Done(op, b, v) == [Call(op, b, v) EXCEPT !.res = "done", !.ret = Void]

NoneYet == [data |-> "none", dev_this |-> "none", dev_data |-> "none"]
AllLive == [data |-> "live", dev_this |-> "live", dev_data |-> "live"]

Slots == 0..NumGangs

\* what float sum; holds before its first assignment
Uninit == -1

GangIdle == [pc |-> "idle", i |-> 0,
             part |-> [l \in Lanes |-> 0], pt |-> [l \in Lanes |-> {}],
             todo |-> {}]

NoKernel ==
  /\ iters = {}
  /\ val = 0
  /\ rows = {}
  /\ gang = [g \in Gangs |-> GangIdle]
  /\ sum = [s \in Slots |-> Uninit]
  /\ sterms = [s \in Slots |-> {}]
  /\ writes = << >>
  /\ oterms = << >>

\* mutant of matrix_at: the row index is scaled by the number of rows
matrix_at_rowstride(d, x, y) == x * d.nx + y

\* mutant of matrix_at: column-major addressing
matrix_at_colmajor(d, x, y) == y * d.nx + x

\* float& matrix::at(int x, int y), as a flat offset into data
matrix_at(d, x, y) == x * d.ny + y

\* float& vector::at(int i), as a flat offset into data
vector_at(d, i) == i

\* present(b): the struct and its array are on the accelerator
Present(b) == alloc[b].dev_this = "live" /\ alloc[b].dev_data = "live"

Snapshot == [data |-> data, dev_data |-> dev_data,
             this |-> [nx |-> nx, ny |-> ny, n |-> n], dev_this |-> dev_this]

(***************************************************************************)
(* matrix::matrix(int _nx, int _ny), vector::vector(int _n)                *)
(***************************************************************************)
\* the addresses an allocator hands out
Addrs == 1..Cardinality(Bufs)

\* the addresses of the live arrays of a memory ("data": the host,
\* "dev_data": the accelerator)
InUse(space) == {ptr[c][space] : c \in {d \in Bufs : alloc[d][space] = "live"}}

\* new float[...] / create(data[:...]): the array is placed where no live
\* array of that memory is (the lowest free address)
Fresh(space) ==
  CHOOSE a \in Addrs : a \notin InUse(space) /\
                       \A c \in Addrs : c \notin InUse(space) => a <= c

\* INT_MIN and INT_MAX
IntMin == -Pow2(IntBits - 1)
IntMax == Pow2(IntBits - 1) - 1

\* x reduced to the int that has its low bits (two's complement)
IntWrap(x) == ((x - IntMin) % Pow2(IntBits)) + IntMin

\* a * b on two ints: the product when int holds it; otherwise the signed
\* overflow is undefined, and a build either keeps the low bits (a multiply
\* of the width of int) or the whole product (a multiply of the width of
\* size_t, which the conversion that follows allows)
IntMul(a, b) ==
  IF a * b \in IntMin..IntMax THEN {a * b} ELSE {IntWrap(a * b), a * b}

\* the element counts _nx*_ny of new float[_nx*_ny] and of
\* create(data[:_nx*_ny]) can have
AllocCount(_nx, _ny) == IntMul(_nx, _ny)

\* mutant of UpdateCount: a matrix transfers one element per row
UpdateCountRows(b) == IF b = "mat" THEN nx ELSE n[b]

\* the element count data[:nx*ny] of update self and update device
UpdateCount(b) == IF b = "mat" THEN nx * ny ELSE n[b]

\* the struct as copyin(this) copies it
ThisOf(b) == IF b = "mat" THEN [nx |-> nx, ny |-> ny] ELSE [n |-> n[b]]

\* nx = _nx; ny = _ny; data = new float[_nx*_ny];  (the array is not
\* initialized: it holds whatever float u the allocator left; a negative
\* count converts to a size_t no array can have, new throws
\* std::bad_array_new_length, nothing catches it and the program ends)
matrix_new(_nx, _ny) ==
  /\ pc = "run"
  /\ alloc["mat"] = NoneYet
  /\ nx' = _nx
  /\ ny' = _ny
  /\ \E c \in AllocCount(_nx, _ny), u \in Val :
       /\ data' = [data EXCEPT !["mat"] = Fill(c, u)]
       /\ alloc' = IF c < 0 THEN alloc
                           ELSE [alloc EXCEPT !["mat"].data = "live"]
       /\ ptr' = IF c < 0 THEN ptr
                         ELSE [ptr EXCEPT !["mat"].data = Fresh("data")]
       /\ pc' = IF c < 0 THEN "terminated" ELSE "copyin_this"
  /\ cur' = "mat"
  /\ UNCHANGED <<n, dev_data, dev_this, initvars, kernelvars,
                 histvars>>

\* n = _n; data = new float[_n];
vector_new(b, _n) ==
  /\ pc = "run"
  /\ alloc[b] = NoneYet
  /\ n' = [n EXCEPT ![b] = _n]
  /\ \E u \in Val : data' = [data EXCEPT ![b] = Fill(_n, u)]
  /\ alloc' = [alloc EXCEPT ![b].data = "live"]
  /\ ptr' = [ptr EXCEPT ![b].data = Fresh("data")]
  /\ cur' = b
  /\ pc' = "copyin_this"
  /\ UNCHANGED <<nx, ny, dev_data, dev_this, initvars, kernelvars,
                 histvars>>

\* #pragma acc enter data copyin(this)
enter_data_copyin_this ==
  /\ pc = "copyin_this"
  /\ dev_this' = [dev_this EXCEPT ![cur] = ThisOf(cur)]
  /\ alloc' = [alloc EXCEPT ![cur].dev_this = "live"]
  /\ ptr' = ptr
  /\ pc' = "create_data"
  /\ UNCHANGED <<ctlvars, cur, nx, ny, n, data, dev_data, initvars,
                 kernelvars, histvars>>

\* mutant of CreateCount: the mirror of a matrix has one element per row
CreateCountRows(b) == IF b = "mat" THEN {nx} ELSE {n[b]}

\* the element counts create(data[:_nx*_ny]) and create(data[:_n]) can
\* have; _nx, _ny and _n are the values just assigned to nx, ny and n
CreateCount(b) == IF b = "mat" THEN AllocCount(nx, ny) ELSE {n[b]}

\* #pragma acc enter data create(data[:_nx*_ny]) / create(data[:_n]):
\* the mirror is allocated and not initialized (a negative length is no
\* array section: the runtime ends the program)
enter_data_create ==
  /\ pc = "create_data"
  /\ \E c \in CreateCount(cur), u \in Val :
       /\ dev_data' = [dev_data EXCEPT ![cur] = Fill(c, u)]
       /\ alloc' = IF c < 0 THEN alloc
                           ELSE [alloc EXCEPT ![cur].dev_data = "live"]
       /\ ptr' = IF c < 0 THEN ptr
                         ELSE [ptr EXCEPT ![cur].dev_data = Fresh("dev_data")]
       /\ pc' = IF c < 0 THEN "terminated" ELSE "run"
  /\ UNCHANGED <<ctlvars, cur, nx, ny, n, data, dev_this, initvars,
                 kernelvars, histvars>>

(***************************************************************************)
(* matrix::~matrix(), vector::~vector()                                    *)
(***************************************************************************)
\* what a release makes of an allocation
Release(st) == IF st = "live" THEN "released" ELSE "bad"

\* mutant of DtorBody: the host array is freed first
DtorBodyHostFirst == <<"data", "dev_data", "dev_this">>

\* mutant of DtorBody: the mirror is deleted twice and the descriptor
\* is never deleted
DtorBodyTwice == <<"dev_data", "dev_data", "data">>

\* the releases of a destructor in program order: exit data delete(data),
\* exit data delete(this), delete[] data
DtorBody == <<"dev_data", "dev_this", "data">>

\* where the host thread is before the k-th release of a destructor
DtorPc == <<"dtor_1", "dtor_2", "dtor_3", "run">>

\* nx = 0; ny = 0;  /  n = 0;
dtor_begin(b) ==
  /\ pc = "run"
  /\ alloc[b] = AllLive
  /\ IF b = "mat"
       THEN nx' = 0 /\ ny' = 0 /\ n' = n
       ELSE n' = [n EXCEPT ![b] = 0] /\ UNCHANGED <<nx, ny>>
  /\ cur' = b
  /\ pc' = DtorPc[1]
  /\ UNCHANGED <<data, dev_data, dev_this, alloc, ptr, initvars, kernelvars,
                 histvars>>

\* the k-th release of the running destructor; a released array has no
\* elements any more
dtor_release(k) ==
  /\ pc = DtorPc[k]
  /\ alloc' = [alloc EXCEPT ![cur][DtorBody[k]] = Release(@)]
  /\ ptr' = ptr
  /\ data' = IF DtorBody[k] = "data"
               THEN [data EXCEPT ![cur] = << >>] ELSE data
  /\ dev_data' = IF DtorBody[k] = "dev_data"
                   THEN [dev_data EXCEPT ![cur] = << >>] ELSE dev_data
  /\ pc' = DtorPc[k + 1]
  /\ UNCHANGED <<ctlvars, cur, nx, ny, n, dev_this, initvars, kernelvars,
                 histvars>>

(***************************************************************************)
(* updateCPU(), updateGPU()                                                *)
(***************************************************************************)
\* elements 0..count-1 of src copied over those of dst
CopyRange(dst, src, count) ==
  [k \in DOMAIN dst |-> IF k < count THEN src[k] ELSE dst[k]]

\* both copies of b hold the elements data[:count]
Within(b, count) ==
  count <= Extent(data[b]) /\ count <= Extent(dev_data[b])

\* mutant of updateCPU: the two copies are exchanged
updateCPU_exchange(b) ==
  /\ Present(b)
  /\ data' = [data EXCEPT ![b] = CopyRange(@, dev_data[b], UpdateCount(b))]
  /\ dev_data' = [dev_data EXCEPT
                    ![b] = CopyRange(@, data[b], UpdateCount(b))]
  /\ UNCHANGED <<nx, ny, n, dev_this, alloc, ptr>>

\* #pragma acc update self(data[:nx*ny]) / self(data[:n])
updateCPU(b) ==
  /\ Present(b)
  /\ Within(b, UpdateCount(b))
  /\ data' = [data EXCEPT ![b] = CopyRange(@, dev_data[b], UpdateCount(b))]
  /\ UNCHANGED <<nx, ny, n, dev_data, dev_this, alloc, ptr>>

\* #pragma acc update device(data[:nx*ny]) / device(data[:n])
updateGPU(b) ==
  /\ Present(b)
  /\ Within(b, UpdateCount(b))
  /\ dev_data' = [dev_data EXCEPT
                    ![b] = CopyRange(@, data[b], UpdateCount(b))]
  /\ UNCHANGED <<nx, ny, n, data, dev_this, alloc, ptr>>

\* a host call starts: it becomes the last call
Begin(c) ==
  /\ pre' = Snapshot
  /\ prev' = last
  /\ last' = c

\* the running call returns to its caller
End(res) ==
  /\ pc' = "run"
  /\ last' = [last EXCEPT !.res = res, !.ret = Void]
  /\ UNCHANGED <<pre, prev>>

\* b.updateCPU() called by the host thread
call_updateCPU(b) ==
  /\ pc = "run"
  /\ updateCPU(b)
  /\ Begin(Done("updateCPU", b, 0))
  /\ UNCHANGED <<pc, cur, initvars, kernelvars, outvars>>

\* b.updateGPU() called by the host thread
call_updateGPU(b) ==
  /\ pc = "run"
  /\ updateGPU(b)
  /\ Begin(Done("updateGPU", b, 0))
  /\ UNCHANGED <<pc, cur, initvars, kernelvars, outvars>>

\* dst after a transfer that runs past the end of dst or of src: the
\* elements both arrays hold are copied, the reads past the end of src
\* deliver some float g
CopyPast(dst, src, g) ==
  [k \in DOMAIN dst |-> IF k \in DOMAIN src THEN src[k] ELSE g]

\* b.updateCPU() / b.updateGPU() when data[:nx*ny] is more than an array
\* of b holds: the transfer reads or writes past the end, which is
\* undefined; the program faults, or goes on with memory outside the
\* arrays overwritten
call_update_past(b) ==
  /\ pc = "run"
  /\ Present(b)
  /\ ~Within(b, UpdateCount(b))
  /\ \E op \in {"updateCPU", "updateGPU"}, g \in Val :
       /\ data' = IF op = "updateCPU"
                    THEN [data EXCEPT ![b] = CopyPast(@, dev_data[b], g)]
                    ELSE data
       /\ dev_data' = IF op = "updateGPU"
                        THEN [dev_data EXCEPT ![b] = CopyPast(@, data[b], g)]
                        ELSE dev_data
       /\ Begin([Done(op, b, 0) EXCEPT !.res = "past"])
  /\ pc' \in {"run", "fault"}
  /\ UNCHANGED <<cur, nx, ny, n, dev_this, alloc, ptr, initvars,
                 kernelvars, outvars>>

\* mutant of HostAt: at() called by the host thread refers to the mirror
HostAtMirror(b, k) == dev_data[b][k]

\* the float that b.at(...) called by the host thread refers to, k being the
\* offset at() computes: data is the host pointer of the host struct
HostAt(b, k) == data[b][k]

\* x = b.at(...) executed by the host thread: nothing but x changes
call_at_read(b, k) ==
  /\ pc = "run"
  /\ alloc[b].data = "live"
  /\ k \in DOMAIN data[b]
  /\ seen' = [buf |-> b, off |-> k, val |-> HostAt(b, k), left |-> budget]
  /\ UNCHANGED <<pc, cur, bufvars, initvars, kernelvars, pre, last, prev,
                 compared, cerr>>

\* b.at(...) = v executed by the host thread, k the offset at() computes
call_at(b, k, v) ==
  /\ pc = "run"
  /\ alloc[b].data = "live"
  /\ k \in DOMAIN data[b]
  /\ data' = [data EXCEPT ![b][k] = v]
  /\ Begin([Call("at", b, v) EXCEPT !.res = "done"])
  /\ UNCHANGED <<pc, cur, nx, ny, n, dev_data, dev_this, alloc, ptr, initvars,
                 kernelvars, outvars>>

(***************************************************************************)
(* void init(matrix & mat, float val), void init(vector & vec, float val)  *)
(***************************************************************************)
\* mutant of InitSpace: the last row (element) is left out
InitSpaceShort(b) ==
  IF b = "mat"
    THEN {<<i, j>> : i \in 0..(dev_this[b].nx - 2),
                     j \in 0..(dev_this[b].ny - 1)}
    ELSE {<<i>> : i \in 0..(dev_this[b].n - 2)}

\* the iterations of the (collapsed) loop nest of init
InitSpace(b) ==
  IF b = "mat"
    THEN {<<i, j>> : i \in 0..(dev_this[b].nx - 1),
                     j \in 0..(dev_this[b].ny - 1)}
    ELSE {<<i>> : i \in 0..(dev_this[b].n - 1)}

\* the element mat.at(i, j) or vec.at(i) of iteration it
InitOffset(b, it) ==
  IF b = "mat" THEN matrix_at(dev_this[b], it[1], it[2])
               ELSE vector_at(dev_this[b], it[1])

\* mutant of InitTarget: every init stores through mat
InitTargetMat(b) == "mat"

\* mat.at(i, j) = val / vec.at(i) = val: the buffer the kernel of init(b, .)
\* stores to, on the accelerator
InitTarget(b) == b

\* #pragma acc parallel loop [collapse(2)] present(b)
init_launch(b, v) ==
  /\ pc = "run"
  /\ Present(b)
  /\ pc' = "init"
  /\ cur' = b
  /\ val' = v
  /\ iters' = InitSpace(b)
  /\ Begin(Call("init", b, v))
  /\ UNCHANGED <<bufvars, kernelvars, outvars>>

\* one iteration, by whichever parallel unit it fell to: mat.at(i, j) = val
init_step ==
  /\ pc = "init"
  /\ \E it \in iters :
       /\ InitOffset(cur, it) \in DOMAIN dev_data[InitTarget(cur)]
       /\ iters' = iters \ {it}
       /\ dev_data' = [dev_data EXCEPT
                         ![InitTarget(cur)][InitOffset(cur, it)] = val]
  /\ UNCHANGED <<pc, ctlvars, cur, nx, ny, n, data, dev_this, alloc, ptr, val,
                 kernelvars, histvars>>

\* one iteration whose element lies past the end of the mirror: the
\* store is undefined; the kernel faults, or goes on with memory outside
\* the mirror overwritten
init_step_past ==
  /\ pc = "init"
  /\ \E it \in iters :
       /\ InitOffset(cur, it) \notin DOMAIN dev_data[InitTarget(cur)]
       /\ iters' = iters \ {it}
  /\ last' = [last EXCEPT !.res = "past"]
  /\ pc' \in {"init", "fault"}
  /\ UNCHANGED <<ctlvars, cur, bufvars, val, kernelvars, pre, prev,
                 outvars>>

\* the end of the parallel region of init
init_return ==
  /\ pc = "init"
  /\ iters = {}
  /\ End("done")
  /\ UNCHANGED <<ctlvars, cur, bufvars, initvars, kernelvars, outvars>>

(***************************************************************************)
(* void matvecmul(matrix & mat, vector & vec, vector & out)                *)
(***************************************************************************)
\* mutant of Incompatible: the row test is missing
IncompatibleColsOnly == ny # n["vec"]

\* the dimension test of matvecmul
Incompatible == ny # n["vec"] \/ nx # n["out"]

\* mutant of MismatchReport: nothing is written
MismatchSilent == << >>

\* std::cerr << "matrix/vector dimensions incompatible" << std::endl;
MismatchReport == <<"matrix/vector dimensions incompatible">>

\* the if branch: report on std::cerr and return
matvecmul_mismatch ==
  /\ pc = "run"
  /\ Incompatible
  /\ Begin([Done("matvecmul", "out", 0) EXCEPT !.res = "mismatch"])
  /\ cerr' = cerr \o MismatchReport
  /\ writes' = << >>
  /\ oterms' = << >>
  /\ UNCHANGED <<pc, cur, bufvars, initvars, rows, gang, sum, sterms,
                 compared, seen>>

\* #pragma acc parallel loop gang present(mat, vec, out) private(sum):
\* the private copies of sum start uninitialized (Uninit); each is assigned
\* before the kernel reads it
matvecmul_launch ==
  /\ pc = "run"
  /\ ~Incompatible
  /\ \A b \in Bufs : Present(b)
  /\ pc' = "matvecmul"
  /\ Begin(Call("matvecmul", "out", 0))
  /\ rows' = 0..(dev_this["mat"].nx - 1)
  /\ gang' = [g \in Gangs |-> GangIdle]
  /\ sum' = [s \in Slots |-> Uninit]
  /\ sterms' = [s \in Slots |-> {}]
  /\ writes' = [i \in 0..(dev_this["mat"].nx - 1) |-> 0]
  /\ oterms' = [i \in 0..(dev_this["mat"].nx - 1) |-> {}]
  /\ UNCHANGED <<cur, bufvars, initvars, outvars>>

\* mutant of RowsAfterTake: every gang runs every iteration
RowsKept(rs, i) == rs

\* the gang loop hands each iteration i to one gang
RowsAfterTake(rs, i) == rs \ {i}

\* mutant of SumSlot: sum is shared by the gangs
SumShared(g) == 0

\* private(sum): the accumulator copy gang g works on
SumSlot(g) == g

\* sum = 0.0f
SumInit == 0

\* mat.at(i,j)*vec.at(j), read through the accelerator copies
Term(i, j) ==
  FMul(dev_data["mat"][matrix_at(dev_this["mat"], i, j)],
       dev_data["vec"][vector_at(dev_this["vec"], j)])

\* the columns of S from the lowest up, added to acc in the order one lane
\* runs its share of for ( j = 0 ; j < mat.ny ; j++ )
LaneSumF[acc \in Int, i \in Int, S \in SUBSET Int] ==
  IF S = {} THEN acc
  ELSE LET j == CHOOSE c \in S : \A d \in S : c <= d
       IN  LaneSumF[FAdd(acc, Term(i, j)), i, S \ {j}]

LaneSum(acc, i, S) == LaneSumF[acc, i, S]

\* for ( i = 0 ; i < mat.nx ; i++ ): gang g takes iteration i
GangTake(g) ==
  /\ pc = "matvecmul"
  /\ gang[g].pc = "idle"
  /\ \E i \in rows :
       /\ rows' = RowsAfterTake(rows, i)
       /\ gang' = [gang EXCEPT ![g] = [GangIdle EXCEPT !.pc = "zero", !.i = i]]
  /\ UNCHANGED <<pc, ctlvars, cur, bufvars, initvars, sum, sterms, writes,
                 oterms, histvars>>

\* sum = 0.0f
GangZero(g) ==
  /\ pc = "matvecmul"
  /\ gang[g].pc = "zero"
  /\ sum' = [sum EXCEPT ![SumSlot(g)] = SumInit]
  /\ sterms' = [sterms EXCEPT ![SumSlot(g)] = {}]
  /\ gang' = [gang EXCEPT ![g] = [@ EXCEPT !.pc = "loop"]]
  /\ UNCHANGED <<pc, ctlvars, cur, bufvars, initvars, rows, writes, oterms,
                 histvars>>

\* #pragma acc loop vector reduction(+:sum): the columns are shared out
\* among the lanes (f), each lane adds its terms to its own reduction copy,
\* which starts at 0.  A lane touches nothing but its copy here, so the
\* lanes' iterations are taken as one step of the gang.
VectorLoop(g) ==
  /\ pc = "matvecmul"
  /\ gang[g].pc = "loop"
  /\ \E f \in [0..(dev_this["mat"].ny - 1) -> Lanes] :
       gang' = [gang EXCEPT ![g] =
         [@ EXCEPT !.pc = "reduce",
                   !.part = [l \in Lanes |->
                               LaneSum(0, gang[g].i,
                                       {j \in DOMAIN f : f[j] = l})],
                   !.pt = [l \in Lanes |-> {j \in DOMAIN f : f[j] = l}],
                   !.todo = Lanes]]
  /\ UNCHANGED <<pc, ctlvars, cur, bufvars, initvars, rows, sum, sterms,
                 writes, oterms, histvars>>

\* the end of the vector loop: lane l's copy is combined into the gang's sum
LaneReduce(g, l) ==
  /\ pc = "matvecmul"
  /\ gang[g].pc = "reduce"
  /\ l \in gang[g].todo
  /\ sum' = [sum EXCEPT ![SumSlot(g)] = FAdd(@, gang[g].part[l])]
  /\ sterms' = [sterms EXCEPT ![SumSlot(g)] =
                  @ \cup {<<gang[g].i, j>> : j \in gang[g].pt[l]}]
  /\ gang' = [gang EXCEPT ![g] = [@ EXCEPT !.todo = @ \ {l},
                                          !.part[l] = 0,
                                          !.pt[l] = {}]]
  /\ UNCHANGED <<pc, ctlvars, cur, bufvars, initvars, rows, writes, oterms,
                 histvars>>

\* mutant of StoreBuf: the sum is stored to vec
StoreBufVec == "vec"

\* the vector that out.at(i) = sum stores to
StoreBuf == "out"

\* out.at(i) = sum
GangStore(g) ==
  /\ pc = "matvecmul"
  /\ gang[g].pc = "reduce"
  /\ gang[g].todo = {}
  /\ dev_data' = [dev_data EXCEPT
                    ![StoreBuf][vector_at(dev_this[StoreBuf], gang[g].i)] =
                       sum[SumSlot(g)]]
  /\ writes' = [writes EXCEPT ![gang[g].i] = @ + 1]
  /\ oterms' = [oterms EXCEPT ![gang[g].i] = sterms[SumSlot(g)]]
  /\ gang' = [gang EXCEPT ![g] = GangIdle]
  /\ UNCHANGED <<pc, ctlvars, cur, nx, ny, n, data, dev_this, alloc, ptr,
                 initvars, rows, sum, sterms, histvars>>

\* mutant of RegionDone: the host thread does not wait for the gangs
RegionDoneNoWait == rows = {}

\* the parallel region has no async clause: it ends when every iteration
\* was taken and every gang is through
RegionDone == rows = {} /\ \A g \in Gangs : gang[g].pc = "idle"

\* the end of the parallel region: the host thread resumes and returns
matvecmul_return ==
  /\ pc = "matvecmul"
  /\ RegionDone
  /\ End("done")
  /\ sum' = [s \in Slots |-> Uninit]
  /\ sterms' = [s \in Slots |-> {}]
  /\ UNCHANGED <<ctlvars, cur, bufvars, initvars, rows, gang, writes,
                 oterms, outvars>>

Kernel ==
  \/ \E g \in Gangs : GangTake(g)
  \/ \E g \in Gangs : GangZero(g)
  \/ \E g \in Gangs : VectorLoop(g)
  \/ \E g \in Gangs, l \in Lanes : LaneReduce(g, l)
  \/ \E g \in Gangs : GangStore(g)
  \/ matvecmul_return

(***************************************************************************)
(* void check(matrix & mat, ...), void check(vector & vec, ...)            *)
(***************************************************************************)
\* built without DEBUG the body of check is empty
check_release(b) ==
  /\ pc = "run"
  /\ ~debug
  /\ Begin(Done("check", b, 0))
  /\ UNCHANGED <<pc, cur, bufvars, initvars, kernelvars, outvars>>

\* mutant of check_update: the host array is not brought up to date
check_update_skipped(b) ==
  /\ pc = "run"
  /\ debug
  /\ Present(b)
  /\ pc' = "compare"
  /\ cur' = b
  /\ Begin(Call("check", b, 0))
  /\ UNCHANGED <<bufvars, initvars, kernelvars, outvars>>

\* #ifdef DEBUG: mat.updateCPU();
check_update(b) ==
  /\ pc = "run"
  /\ debug
  /\ updateCPU(b)
  /\ pc' = "compare"
  /\ cur' = b
  /\ Begin(Call("check", b, 0))
  /\ UNCHANGED <<initvars, kernelvars, outvars>>

\* pgi_compare(mat.data, "float", mat.nx*mat.ny, ...)
check_compare ==
  /\ pc = "compare"
  /\ compared' = Append(compared,
                        [buf |-> cur, host |-> data[cur],
                         count |-> UpdateCount(cur), dev |-> dev_data[cur]])
  /\ pc' = "run"
  /\ last' = [last EXCEPT !.res = "done", !.ret = Void]
  /\ UNCHANGED <<ctlvars, cur, bufvars, initvars, kernelvars, pre, prev,
                 cerr, seen>>

(***************************************************************************)
(* The program: a scope that declares mat, vec and out as main does, calls *)
(* the functions of the file on them and is left, which destroys out, vec  *)
(* and mat.  main is the program whose calls are init(mat, 1.0f),          *)
(* init(vec, 2.0f), matvecmul(mat, vec, out) and check of mat, vec, out.   *)
(*   stmt 1..3  the declarations of mat, vec, out                          *)
(*   stmt 4     the calls                                                  *)
(*   stmt 5..7  the destructors of out, vec, mat; 8: the scope is left     *)
(***************************************************************************)
Dims == 0..MaxDim

\* the objects of the scope in the order of their declarations
Declared == <<"mat", "vec", "out">>

\* the object destroyed by the k-th destructor call at the end of the scope
Destroyed(k) == Declared[Len(Declared) + 1 - k]

\* the scope is entered: nothing is declared yet
Start ==
  /\ pc = "run"
  /\ stmt = 1
  /\ cur = "mat"
  /\ debug \in BOOLEAN
  /\ nx = 0
  /\ ny = 0
  /\ n = [b \in Vecs |-> 0]
  /\ data = [b \in Bufs |-> << >>]
  /\ dev_data = [b \in Bufs |-> << >>]
  /\ dev_this = [b \in Bufs |->
                   IF b = "mat" THEN [nx |-> 0, ny |-> 0] ELSE [n |-> 0]]
  /\ alloc = [b \in Bufs |-> NoneYet]
  /\ ptr = [b \in Bufs |-> [data |-> 0, dev_data |-> 0]]
  /\ NoKernel
  /\ pre = Snapshot
  /\ last = NoCall
  /\ prev = NoCall
  /\ compared = << >>
  /\ cerr = << >>
  /\ seen = NoRead

Init == budget = MaxCalls /\ Start

\* matrix mat(_nx, _ny);
main_declare_matrix ==
  /\ stmt = 1
  /\ stmt' = stmt + 1
  /\ UNCHANGED <<budget, debug>>
  /\ \E _nx \in Dims, _ny \in Dims : matrix_new(_nx, _ny)

\* vector vec(_n);  vector out(_n);
main_declare_vector ==
  /\ stmt \in 2..3
  /\ pc = "run"
  /\ stmt' = stmt + 1
  /\ UNCHANGED <<budget, debug>>
  /\ \E _n \in Dims : vector_new(Declared[stmt], _n)

\* the host thread is between two calls and the client has calls left
ClientCall ==
  /\ stmt = 4
  /\ budget > 0
  /\ budget' = budget - 1
  /\ UNCHANGED <<stmt, debug>>

\* init(b, v);
client_init == ClientCall /\ \E b \in Bufs, v \in Val : init_launch(b, v)

\* matvecmul(mat, vec, out);
client_matvecmul == ClientCall /\ (matvecmul_mismatch \/ matvecmul_launch)

\* b.updateCPU();
client_updateCPU == ClientCall /\ \E b \in Bufs : call_updateCPU(b)

\* b.updateGPU();
client_updateGPU == ClientCall /\ \E b \in Bufs : call_updateGPU(b)

\* mat.at(x, y) = v;  vec.at(i) = v;  with indices inside the object
client_at ==
  /\ ClientCall
  /\ \E v \in Val :
       \/ \E x \in 0..(nx - 1), y \in 0..(ny - 1) :
            call_at("mat", matrix_at([nx |-> nx, ny |-> ny], x, y), v)
       \/ \E b \in Vecs : \E i \in 0..(n[b] - 1) :
            call_at(b, vector_at([n |-> n[b]], i), v)

\* x = mat.at(x, y);  x = vec.at(i);  with indices inside the object
client_read ==
  /\ ClientCall
  /\ \/ \E x \in 0..(nx - 1), y \in 0..(ny - 1) :
          call_at_read("mat", matrix_at([nx |-> nx, ny |-> ny], x, y))
     \/ \E b \in Vecs : \E i \in 0..(n[b] - 1) :
          call_at_read(b, vector_at([n |-> n[b]], i))

\* check(b, ...);
client_check ==
  ClientCall /\ \E b \in Bufs : (check_release(b) \/ check_update(b))

\* the closing brace of the scope: the next destructor is called
main_destroy ==
  /\ stmt \in 4..6
  /\ pc = "run"
  /\ stmt' = stmt + 1
  /\ budget' = 0
  /\ UNCHANGED debug
  /\ dtor_begin(Destroyed(stmt - 3))

\* the last destructor has returned
main_exit ==
  /\ stmt = 7
  /\ pc = "run"
  /\ stmt' = 8
  /\ UNCHANGED <<pc, budget, cur, debug, bufvars, initvars, kernelvars,
                 histvars>>

Next ==
  \/ main_declare_matrix
  \/ main_declare_vector
  \/ enter_data_copyin_this
  \/ enter_data_create
  \/ client_init
  \/ init_step
  \/ init_return
  \/ client_matvecmul
  \/ Kernel
  \/ client_updateCPU
  \/ client_updateGPU
  \/ client_at
  \/ client_check
  \/ check_compare
  \/ main_destroy
  \/ \E k \in 1..3 : dtor_release(k)
  \/ main_exit

Spec == Init /\ [][Next]_vars

(***************************************************************************)
(* SpecMain: the calls of the scope are those of main, in main's order;    *)
(* the constructor arguments, the values passed to init and DEBUG are any. *)
(***************************************************************************)
\* the calls of main
MainCalls ==
  <<[op |-> "init", buf |-> "mat"],
    [op |-> "init", buf |-> "vec"],
    [op |-> "matvecmul", buf |-> "out"],
    [op |-> "check", buf |-> "mat"],
    [op |-> "check", buf |-> "vec"],
    [op |-> "check", buf |-> "out"]>>

InitMain == budget = Len(MainCalls) /\ Start

\* the next call of main
main_call ==
  /\ ClientCall
  /\ LET c == MainCalls[Len(MainCalls) + 1 - budget]
     IN  \/ c.op = "init" /\ \E v \in Val : init_launch(c.buf, v)
         \/ c.op = "matvecmul" /\ (matvecmul_mismatch \/ matvecmul_launch)
         \/ c.op = "check" /\ (check_release(c.buf) \/ check_update(c.buf))

\* the closing brace of main, reached after the last call
main_end == budget = 0 /\ main_destroy

NextMain ==
  \/ main_declare_matrix
  \/ main_declare_vector
  \/ enter_data_copyin_this
  \/ enter_data_create
  \/ main_call
  \/ init_step
  \/ init_return
  \/ Kernel
  \/ check_compare
  \/ main_end
  \/ \E k \in 1..3 : dtor_release(k)
  \/ main_exit

SpecMain == InitMain /\ [][NextMain]_vars

(***************************************************************************)
(* SpecMul: one call of matvecmul on three constructed buffers of any      *)
(* shapes; the mirrors of mat and out and the host arrays hold any values. *)
(***************************************************************************)
\* three constructed buffers: the mirror of mat holds m, that of vec holds
\* v, the host arrays and the mirror of out hold u
Constructed(m, v, u) ==
  /\ pc = "run"
  /\ stmt = 4
  /\ cur = "mat"
  /\ debug = FALSE
  /\ data = [b \in Bufs |-> Fill(IF b = "mat" THEN nx * ny ELSE n[b], u)]
  /\ dev_data = [b \in Bufs |->
                   IF b = "mat" THEN m
                   ELSE IF b = "vec" THEN Fill(n["vec"], v)
                   ELSE Fill(n["out"], u)]
  /\ dev_this = [b \in Bufs |->
                   IF b = "mat" THEN [nx |-> nx, ny |-> ny] ELSE [n |-> n[b]]]
  /\ alloc = [b \in Bufs |-> AllLive]
  /\ ptr = [b \in Bufs |->
              IF b = "mat" THEN [data |-> 1, dev_data |-> 1]
              ELSE IF b = "vec" THEN [data |-> 2, dev_data |-> 2]
              ELSE [data |-> 3, dev_data |-> 3]]
  /\ NoKernel
  /\ pre = Snapshot
  /\ last = NoCall
  /\ prev = NoCall
  /\ compared = << >>
  /\ cerr = << >>
  /\ seen = NoRead

MulShapes ==
  /\ nx \in 0..MaxRows
  /\ ny \in 0..MaxCols
  /\ n \in [Vecs -> 0..MaxCols]
  /\ n["out"] <= MaxRows

InitMul ==
  /\ MulShapes
  /\ budget = 1
  /\ \E m \in Arr(nx * ny, Val), v \in Val, u \in Val : Constructed(m, v, u)

\* the same shapes, every array filled with one value
InitMulFilled ==
  /\ MulShapes
  /\ budget = 1
  /\ \E v \in Val : Constructed(Fill(nx * ny, v), v, v)

NextMul ==
  \/ client_matvecmul
  \/ Kernel

SpecMul == InitMul /\ [][NextMul]_vars

\* one call of matvecmul on filled buffers, the accelerator running every
\* launched kernel to its end
SpecMulFair == InitMulFilled /\ [][NextMul]_vars /\ WF_vars(Kernel)

(***************************************************************************)
(* SpecFill: the client's calls are init and updateCPU, on three           *)
(* constructed buffers of any shapes whose mirrors and host arrays hold    *)
(* any one value each.                                                     *)
(***************************************************************************)
InitFill ==
  /\ MulShapes
  /\ budget = MaxCalls
  /\ \E w \in Val, u \in Val : Constructed(Fill(nx * ny, w), w, u)

NextFill ==
  \/ client_init
  \/ init_step
  \/ init_return
  \/ client_updateCPU

SpecFill == InitFill /\ [][NextFill]_vars

(***************************************************************************)
(* SpecSync: the client's calls are init, matvecmul, updateCPU, updateGPU  *)
(* and at (as the target of a store and as a value read), on               *)
(* three constructed buffers of any shapes whose mirrors and host arrays   *)
(* hold any one value each.                                                *)
(***************************************************************************)
NextSync ==
  \/ client_init
  \/ init_step
  \/ init_return
  \/ client_updateCPU
  \/ client_updateGPU
  \/ client_at
  \/ client_read
  \/ client_matvecmul
  \/ Kernel

SpecSync == InitFill /\ [][NextSync]_vars

(***************************************************************************)
(* Properties of matvecmul, checked under SpecMul.                         *)
(***************************************************************************)
\* matvecmul has returned from its parallel region
MulDone == pc = "run" /\ last.op = "matvecmul" /\ last.res = "done"

\* the shapes violate mat.columns = vec.length and mat.rows = out.length
ShapeMismatch == ny # n["vec"] \/ nx # n["out"]

\* mat[i,j] and vec[j] on the accelerator when matvecmul was entered
MatElem(i, j) == pre.dev_data["mat"][i * ny + j]
VecElem(j) == pre.dev_data["vec"][j]

\* the sum over j in S of mat[i,j]*vec[j], in exact arithmetic
RECURSIVE ExactSum(_, _)
ExactSum(i, S) ==
  IF S = {} THEN 0
  ELSE LET j == CHOOSE c \in S : TRUE
       IN  MatElem(i, j) * VecElem(j) + ExactSum(i, S \ {j})

Cols == 0..(ny - 1)
ExactDot(i) == ExactSum(i, Cols)

Representable(x) == Round(x) = x

\* no operation on row i can round: every partial sum is a float
RowExact(i) == \A S \in SUBSET Cols : Representable(ExactSum(i, S))

RECURSIVE Pow(_, _)
Pow(b, k) == IF k = 0 THEN 1 ELSE b * Pow(b, k - 1)

\* x is e after at most k roundings, each of relative error <= 2^-MantBits
WithinRounding(x, e, k) ==
  /\ e * Pow(Pow2(MantBits) - 1, k) <= x * Pow(Pow2(MantBits), k)
  /\ x * Pow(Pow2(MantBits), k) <= e * Pow(Pow2(MantBits) + 1, k)

\* roundings on the way of one term into out[i]: its product, the additions
\* of its lane, the additions that combine the lanes
Roundings == 1 + ny + NumLanes

C2_MismatchNoOp ==
  (last.op = "matvecmul" /\ ShapeMismatch) =>
    /\ pc = "run"
    /\ last.res = "mismatch"
    /\ rows = {} /\ writes = << >>
    /\ \A g \in Gangs : gang[g] = GangIdle
    /\ data = pre.data
    /\ dev_data = pre.dev_data
    /\ [nx |-> nx, ny |-> ny, n |-> n] = pre.this
    /\ dev_this = pre.dev_this

\* C2 witness: a mismatched call on non-empty buffers has returned
C2_Witness ==
  /\ last.op = "matvecmul" /\ last.res = "mismatch"
  /\ nx = 2 /\ ny = 2 /\ n["vec"] = 3 /\ n["out"] = 2

\* the terms of row i
RowTerms(i) == {<<i, j>> : j \in Cols}

\* the gangs that hold a row
Busy == {g \in Gangs : gang[g].pc # "idle"}

\* C3: during one matvecmul call each out[i] is stored at most once, and
\* exactly once by the return; a row is held by one gang only, which stores
\* it, and the stored value holds the whole reduction of that row.
C3_WriteOnce ==
  last.op = "matvecmul" =>
    /\ \A i \in DOMAIN writes :
         /\ writes[i] <= 1
         /\ writes[i] = 1 => oterms[i] = RowTerms(i)
         /\ MulDone => writes[i] = 1
         /\ i \in rows => writes[i] = 0
    /\ \A g \in Busy : gang[g].i \notin rows /\ writes[gang[g].i] = 0
    /\ \A g1, g2 \in Busy : g1 # g2 => gang[g1].i # gang[g2].i

\* C3 witness: both rows of a 2 x 3 product are stored, one gang still
\* holds nothing and the kernel has not returned yet
C3_Witness ==
  /\ pc = "matvecmul"
  /\ nx = 2 /\ ny = 3
  /\ \A i \in DOMAIN writes : writes[i] = 1
  /\ oterms[0] = RowTerms(0) /\ oterms[1] = RowTerms(1)

\* the columns whose terms gang g has combined into its accumulator
Combined(g) ==
  IF gang[g].pc = "reduce"
    THEN Cols \ UNION {gang[g].pt[l] : l \in gang[g].todo}
    ELSE {}

\* C4: the accumulator of a row is 0 when its vector loop starts, holds
\* terms of that row only while the row's gang works on it, whatever the
\* other gangs do, and so does the value stored to out[i].
C4_PrivateSum ==
  /\ \A g \in Busy :
       /\ gang[g].pc = "loop" => sum[SumSlot(g)] = 0
       /\ gang[g].pc \in {"loop", "reduce"} =>
            sterms[SumSlot(g)] = {<<gang[g].i, j>> : j \in Combined(g)}
       /\ gang[g].pc = "reduce" /\ gang[g].todo = Lanes =>
            sum[SumSlot(g)] = 0
  /\ \A i \in DOMAIN oterms : oterms[i] \subseteq RowTerms(i)

\* C4 witness: two gangs are in the reduction of two different rows, each
\* with terms already in its accumulator
C4_Witness ==
  /\ pc = "matvecmul"
  /\ \E g1, g2 \in Gangs :
       /\ g1 # g2
       /\ gang[g1].pc = "reduce" /\ gang[g2].pc = "reduce"
       /\ gang[g1].i # gang[g2].i
       /\ sterms[SumSlot(g1)] # {} /\ sterms[SumSlot(g2)] # {}
       /\ sum[SumSlot(g1)] # sum[SumSlot(g2)]

\* C9: a matvecmul call with compatible shapes transfers nothing: while it
\* runs and when it has returned, the host arrays of mat, vec and out and
\* the accelerator copies of mat and vec are what they were at the call,
\* as are the structs; only elements of the accelerator copy of out change.
C9_OnlyOutWritten ==
  (last.op = "matvecmul" /\ ~ShapeMismatch) =>
    /\ data = pre.data
    /\ dev_data["mat"] = pre.dev_data["mat"]
    /\ dev_data["vec"] = pre.dev_data["vec"]
    /\ DOMAIN dev_data["out"] = DOMAIN pre.dev_data["out"]
    /\ [nx |-> nx, ny |-> ny, n |-> n] = pre.this
    /\ dev_this = pre.dev_this
    /\ alloc = [b \in Bufs |-> AllLive]

\* C9 witness: a 2 x 2 product has returned and changed both elements of
\* the accelerator copy of out, and no host array
C9_Witness ==
  /\ MulDone
  /\ nx = 2 /\ ny = 2
  /\ \A i \in 0..1 : dev_data["out"][i] # pre.dev_data["out"][i]
  /\ data["out"] = pre.data["out"]

\* the call has returned with every row stored
AllWritten ==
  /\ ~ShapeMismatch
  /\ last.res = "done"
  /\ DOMAIN writes = 0..(nx - 1)
  /\ \A i \in 0..(nx - 1) : writes[i] = 1 /\ oterms[i] = RowTerms(i)
  /\ Busy = {} /\ rows = {}

\* the call has returned with no row stored
NoneWritten ==
  /\ ShapeMismatch
  /\ last.res = "mismatch"
  /\ writes = << >>
  /\ dev_data["out"] = pre.dev_data["out"]
  /\ Busy = {} /\ rows = {}

\* C10: every matvecmul call returns, and when it has returned either every
\* row of out is stored and no gang runs (compatible shapes) or nothing of
\* out was stored (dimension mismatch); never only some rows.
C10_ReturnsAllOrNothing ==
  /\ [](pc = "run" /\ last.op = "matvecmul" => AllWritten \/ NoneWritten)
  /\ (pc = "matvecmul" ~> pc = "run" /\ last.op = "matvecmul")

\* C10 witness: a 2 x 3 product has returned with both rows stored by two
\* different gangs' worth of work
C10_Witness ==
  /\ pc = "run" /\ last.op = "matvecmul" /\ AllWritten
  /\ nx = 2 /\ ny = 3 /\ budget = 0


(***************************************************************************)
(* Properties of the life of a buffer, checked under Spec.                 *)
(***************************************************************************)
Components == {"data", "dev_this", "dev_data"}

\* the host thread is inside the constructor or the destructor of b
InCtorOrDtor(b) ==
  /\ cur = b
  /\ pc \in {"copyin_this", "create_data", "dtor_1", "dtor_2", "dtor_3"}

\* C5: a destructor releases the accelerator mirror, then the accelerator
\* descriptor, then the host array, each once: the descriptor is never
\* released while the mirror exists, and the host array is never freed
\* while the mirror or the descriptor exists.
C5_ReleaseOrder ==
  \A b \in Bufs :
    /\ \A c \in Components : alloc[b][c] # "bad"
    /\ alloc[b].dev_this = "released" => alloc[b].dev_data = "released"
    /\ alloc[b].data = "released" =>
         /\ alloc[b].dev_data = "released"
         /\ alloc[b].dev_this = "released"

\* C5 witness: the destructor of mat has released the mirror and the
\* descriptor and is about to free the host array; out and vec are gone
C5_Witness ==
  /\ pc = "dtor_3" /\ cur = "mat"
  /\ alloc["mat"] = [data |-> "live", dev_this |-> "released",
                     dev_data |-> "released"]
  /\ \A b \in Vecs : \A c \in Components : alloc[b][c] = "released"

\* from the end of the construction of b to the start of its destruction
Lifetime(b) == alloc[b].data = "live" /\ ~InCtorOrDtor(b)

\* C6: in every state of the lifetime of a buffer its accelerator
\* allocation exists and has the extent of its host array, and no step
\* taken within the lifetime (of init, matvecmul, updateCPU, updateGPU, at,
\* check) changes the extent of either copy or frees one.
C6_ExtentFixed ==
  /\ [](\A b \in Bufs :
          Lifetime(b) =>
            /\ Present(b)
            /\ Extent(dev_data[b]) = Extent(data[b])
            /\ DOMAIN dev_data[b] = DOMAIN data[b])
  /\ [][\A b \in Bufs :
          Lifetime(b) /\ Lifetime(b)' =>
            /\ DOMAIN data'[b] = DOMAIN data[b]
            /\ DOMAIN dev_data'[b] = DOMAIN dev_data[b]
            /\ alloc'[b] = alloc[b]]_vars

\* C6 witness: the client has made two calls, the second a store through
\* at, on buffers of one element each, all within their lifetime
C6_Witness ==
  /\ pc = "run" /\ stmt = 4 /\ budget = 0
  /\ last.op = "at" /\ prev.op = "init"
  /\ \A b \in Bufs :
       Lifetime(b) /\ Extent(data[b]) = 1 /\ Extent(dev_data[b]) = 1

(***************************************************************************)
(* Properties of init, checked under SpecFill.                             *)
(***************************************************************************)
\* C7: when init(buf, v) and then buf.updateCPU() have returned, every
\* element of the host array of buf is v, whatever the order in which the
\* parallel units ran the iterations of init.
C7_FillThenUpdateCPU ==
  (/\ pc = "run"
   /\ last.op = "updateCPU" /\ prev.op = "init" /\ prev.buf = last.buf) =>
    \A k \in DOMAIN data[last.buf] : data[last.buf][k] = prev.v

\* C7 witness: a 2 x 3 matrix whose host array held another value was
\* filled and brought to the host
C7_Witness ==
  /\ pc = "run"
  /\ last.op = "updateCPU" /\ last.buf = "mat"
  /\ prev.op = "init" /\ prev.buf = "mat"
  /\ nx = 2 /\ ny = 3
  /\ data["mat"] = Fill(6, prev.v)
  /\ pre.data["mat"][5] # prev.v

\* what is outside the accelerator copy of buffer b did not change since
\* the last call was entered
OnlyMirrorOf(b) ==
  /\ data = pre.data
  /\ \A c \in Bufs \ {b} : dev_data[c] = pre.dev_data[c]
  /\ DOMAIN dev_data[b] = DOMAIN pre.dev_data[b]
  /\ [nx |-> nx, ny |-> ny, n |-> n] = pre.this
  /\ dev_this = pre.dev_this

\* C8: while init(buf, v) runs and when it has returned, the host arrays of
\* all buffers and the accelerator copies of the other buffers are what
\* they were at the call; and the host array of buf is still unchanged
\* after a following call that is not buf.updateCPU().
C8_InitWritesMirrorOnly ==
  /\ last.op = "init" => OnlyMirrorOf(last.buf)
  /\ (/\ prev.op = "init"
      /\ ~(last.op = "updateCPU" /\ last.buf = prev.buf)) =>
       data[prev.buf] = pre.data[prev.buf]

\* C8 witness: init of a 3-element vec has returned; its mirror holds v in
\* every element, its host array still holds the other value, and the
\* mirror of a 2 x 3 mat holds what it held
C8_Witness ==
  /\ pc = "run"
  /\ last.op = "init" /\ last.buf = "vec" /\ last.res = "done"
  /\ n["vec"] = 3 /\ nx = 2 /\ ny = 3
  /\ dev_data["vec"] = Fill(3, last.v)
  /\ pre.dev_data["vec"] # dev_data["vec"]
  /\ data["vec"][0] # last.v
  /\ dev_data["mat"] = pre.dev_data["mat"]
  /\ dev_data["mat"][0] # last.v


(***************************************************************************)
(* Properties of the error path of matvecmul, checked under SpecMul.       *)
(***************************************************************************)
\* a matvecmul call with incompatible shapes has returned
MulFailed == pc = "run" /\ last.op = "matvecmul" /\ ShapeMismatch

\* C11 as stated: a matvecmul call with incompatible shapes hands its
\* caller an outcome that differs from the outcome of a successful call.
\* (Violated: matvecmul is void in both cases.)
C11_CallerReceivesError ==
  MulFailed => last.ret # Void

\* C11 amended: a matvecmul call with incompatible shapes writes one line,
\* "matrix/vector dimensions incompatible", to std::cerr and returns to its
\* caller, which goes on; a successful call writes nothing; both hand the
\* caller the same outcome, that of a void function.
C11_ReportsOnCerr ==
  /\ MulFailed =>
       /\ cerr = <<"matrix/vector dimensions incompatible">>
       /\ last.ret = Void
       /\ last.res = "mismatch"
  /\ MulDone => cerr = << >> /\ last.ret = Void
  /\ (last.op = "matvecmul" /\ pc = "matvecmul") => cerr = << >>

\* C11 witness: a 2 x 2 matrix was multiplied with a vector of 3 elements;
\* the line is on std::cerr and the host thread is back in the caller
C11_Witness ==
  /\ MulFailed
  /\ nx = 2 /\ ny = 2 /\ n["vec"] = 3 /\ n["out"] = 2
  /\ Len(cerr) = 1
  /\ last.ret = Void


(***************************************************************************)
(* Properties of updateCPU, updateGPU and at, checked under SpecSync.      *)
(***************************************************************************)
\* the fields of the structs are what they were when the last call was
\* entered
StructsKept ==
  /\ [nx |-> nx, ny |-> ny, n |-> n] = pre.this
  /\ dev_this = pre.dev_this

\* C12: after buf.updateCPU() the host array of buf equals the accelerator
\* copy on every element, and the accelerator copies, the host arrays of
\* the other buffers and the structs are what they were at the call;
\* after buf.updateGPU() the accelerator copy of buf equals the host array
\* on every element, and the host arrays, the accelerator copies of the
\* other buffers and the structs are what they were.
C12_UpdateCopiesOneWay ==
  /\ last.op = "updateCPU" =>
       /\ data[last.buf] = dev_data[last.buf]
       /\ dev_data = pre.dev_data
       /\ \A c \in Bufs \ {last.buf} : data[c] = pre.data[c]
       /\ StructsKept
  /\ last.op = "updateGPU" =>
       /\ dev_data[last.buf] = data[last.buf]
       /\ data = pre.data
       /\ \A c \in Bufs \ {last.buf} : dev_data[c] = pre.dev_data[c]
       /\ StructsKept

\* C12 witness: a 2 x 3 mat was brought to the host and then a vec of 3
\* elements was pushed to the accelerator; both copies were changed by it
C12_Witness ==
  /\ prev.op = "updateCPU" /\ prev.buf = "mat"
  /\ last.op = "updateGPU" /\ last.buf = "vec"
  /\ nx = 2 /\ ny = 3 /\ n["vec"] = 3
  /\ data["mat"] = dev_data["mat"]
  /\ data["mat"] # data["vec"]
  /\ dev_data["vec"] = data["vec"]
  /\ dev_data["vec"] # pre.dev_data["vec"]

\* the last two calls were op on the same buffer, one right after the other
Twice(op) ==
  /\ last.op = op /\ prev.op = op
  /\ last.buf = prev.buf

\* C13: the second of two consecutive updateCPU calls on a buffer leaves
\* the host arrays as the first left them, and the second of two
\* consecutive updateGPU calls leaves the accelerator copies as the first
\* left them.
C13_UpdateIdempotent ==
  /\ Twice("updateCPU") => data = pre.data /\ dev_data = pre.dev_data
  /\ Twice("updateGPU") => dev_data = pre.dev_data /\ data = pre.data

\* C13 witness: a 2 x 3 mat was brought to the host twice; the first call
\* changed its host array (the host array of vec still holds the old value)
C13_Witness ==
  /\ Twice("updateCPU") /\ last.buf = "mat"
  /\ nx = 2 /\ ny = 3 /\ n["vec"] = 3
  /\ data["mat"] = dev_data["mat"]
  /\ data["mat"][0] # data["vec"][0]


(***************************************************************************)
(* Properties of check and of the end of main, checked under SpecMain.     *)
(***************************************************************************)
\* C14: when pgi_compare is about to be invoked on a buffer, check has just
\* run updateCPU on that buffer and nothing was written on the accelerator
\* since, so the host array handed to it equals the accelerator copy, in
\* whole; the checks of main hand mat, vec and out in this order.
C14_SyncedBeforeCompare ==
  /\ pc = "compare" =>
       /\ last.op = "check" /\ last.buf = cur
       /\ dev_data = pre.dev_data
       /\ data[cur] = dev_data[cur]
  /\ Len(compared) <= Len(Declared)
  /\ \A k \in 1..Len(compared) :
       /\ compared[k].buf = Declared[k]
       /\ compared[k].host = compared[k].dev
       /\ compared[k].count = Extent(compared[k].host)

\* C14 witness: built with DEBUG, main has handed mat, vec and out to
\* pgi_compare after a multiply of a 1 x 1 matrix 4 with the vector 4; the
\* host array of out held the product
C14_Witness ==
  /\ debug /\ pc = "run"
  /\ Len(compared) = 3
  /\ compared[1].host = Fill(1, 4) /\ compared[2].host = Fill(1, 4)
  /\ compared[3].host = Fill(1, 16)
  /\ cerr = << >>


\* the last call of the client was a read through at(), made right after
\* the call that last names
ReadLast == seen.buf \in Bufs /\ seen.left = budget + 1 /\ pc = "run"

\* init(buf, v) or matvecmul has returned and was the last call but reads
WroteOnAccelerator ==
  /\ pc = "run"
  /\ \/ last.op = "init" /\ last.res = "done"
     \/ MulDone

\* C15 as stated: at() refers to the host array and never to the
\* accelerator copy at every place it is called, so the stores that init
\* and matvecmul make through at() leave the accelerator copies as they
\* were.  (Violated: inside a parallel region at() addresses the mirror.)
C15_AtNeverOnAccelerator ==
  WroteOnAccelerator => dev_data = pre.dev_data

\* the elements of the host array of b that differ from those at the call
HostChanged(b) == {k \in DOMAIN data[b] : data[b][k] # pre.data[b][k]}

\* C15 amended: called by the host thread, at() refers to the host array
\* only and synchronizes nothing: a store through it changes one element
\* of the host array of its buffer and no accelerator copy, and a read
\* through it made after init or matvecmul and before an updateCPU returns
\* the value the host array held before that call.  Called inside the
\* parallel regions of init and matvecmul, at() addresses the accelerator
\* copy: these calls leave every host array as it was.
C15_HostAtIsHostOnly ==
  /\ last.op = "at" =>
       /\ dev_data = pre.dev_data
       /\ \A c \in Bufs \ {last.buf} : data[c] = pre.data[c]
       /\ DOMAIN data[last.buf] = DOMAIN pre.data[last.buf]
       /\ Cardinality(HostChanged(last.buf)) <= 1
       /\ \A k \in HostChanged(last.buf) : data[last.buf][k] = last.v
       /\ StructsKept
  /\ (ReadLast /\ WroteOnAccelerator) =>
       seen.val = pre.data[seen.buf][seen.off]
  /\ WroteOnAccelerator => data = pre.data

\* C15 witness: init filled the mirror of a 2 x 3 mat with a value its host
\* array did not hold, and the read of mat.at(1, 2) that followed returned
\* the old host value, not the value on the accelerator
C15_Witness ==
  /\ ReadLast /\ last.op = "init" /\ last.buf = "mat"
  /\ nx = 2 /\ ny = 3
  /\ seen.buf = "mat" /\ seen.off = 5
  /\ dev_data["mat"][5] = last.v
  /\ seen.val # last.v
  /\ seen.val = pre.data["mat"][5]


\* the host struct of mat
HostMat == [nx |-> nx, ny |-> ny]

\* the index pairs inside mat
ValidPairs == (0..(nx - 1)) \X (0..(ny - 1))

\* C16: for the matrix as constructed, at(i, j) addresses offset i*cols + j;
\* for every pair 0 <= i < rows, 0 <= j < cols this offset lies in
\* 0..rows*cols-1, inside the allocated array, and two different pairs
\* have different offsets.
C16_AtOffsetInjective ==
  /\ \A p \in ValidPairs :
       /\ matrix_at(HostMat, p[1], p[2]) = p[1] * ny + p[2]
       /\ matrix_at(HostMat, p[1], p[2]) \in 0..(nx * ny - 1)
       /\ matrix_at(HostMat, p[1], p[2]) \in DOMAIN data["mat"]
  /\ \A p, q \in ValidPairs :
       p # q => matrix_at(HostMat, p[1], p[2]) # matrix_at(HostMat, q[1], q[2])
  /\ Cardinality({matrix_at(HostMat, p[1], p[2]) : p \in ValidPairs}) = nx * ny

\* C16 witness: the host thread stored through mat.at(0, 2) and then read
\* mat.at(1, 0) of a 2 x 3 matrix, at offsets 2 and 3: the store did not
\* reach the element read
C16_Witness ==
  /\ nx = 2 /\ ny = 3
  /\ last.op = "at" /\ last.buf = "mat"
  /\ HostChanged("mat") = {matrix_at(HostMat, 0, 2)}
  /\ ReadLast /\ seen.buf = "mat"
  /\ seen.off = matrix_at(HostMat, 1, 0)
  /\ seen.off = 3
  /\ seen.val # last.v


(***************************************************************************)
(* C17: release exactly once on every exit path                            *)
(***************************************************************************)

\* main has left its scope: the three destructors have returned
MainEnded == stmt = 8

\* b and c hold the same live array in the given memory
Shares(b, c, space) ==
  /\ alloc[b][space] = "live"
  /\ alloc[c][space] = "live"
  /\ ptr[b][space] = ptr[c][space]

\* C17: no two live buffers share a host array or an accelerator mirror;
\* no mirror, descriptor or host array is released twice; and when main
\* has ended, after a successful multiply or after a dimension-mismatch
\* return, every mirror, descriptor and host array of mat, vec and out has
\* been released (none was skipped, none remains).
C17_ReleasedExactlyOnce ==
  /\ \A b, c \in Bufs :
       b # c => ~Shares(b, c, "data") /\ ~Shares(b, c, "dev_data")
  /\ \A b \in Bufs : \A c \in Components : alloc[b][c] # "bad"
  /\ MainEnded =>
       \A b \in Bufs : \A c \in Components : alloc[b][c] = "released"

\* C17 witness: main has ended after matvecmul reported a dimension
\* mismatch, the three buffers were constructed at three different
\* addresses in both memories, and everything has been released
C17_Witness ==
  /\ MainEnded
  /\ Len(cerr) = 1
  /\ \A b, c \in Bufs :
       b # c => ptr[b].data # ptr[c].data /\ ptr[b].dev_data # ptr[c].dev_data
  /\ \A b \in Bufs : ptr[b].data # 0 /\ ptr[b].dev_data # 0
  /\ \A b \in Bufs : \A c \in Components : alloc[b][c] = "released"


(***************************************************************************)
(* SpecExtent: a client constructs one matrix with any two int arguments   *)
(* up to MaxSide and calls init, updateCPU or updateGPU on it.             *)
(***************************************************************************)
\* the constructor arguments: ints from 0 on
ExtentShapes ==
  {s \in (0..MaxSide) \X (0..MaxSide) : s[1] <= IntMax /\ s[2] <= IntMax}

\* one call follows the construction; check is not called, so the build
\* without DEBUG stands for both
InitExtent == budget = 1 /\ Start /\ ~debug

\* matrix mat(rows, cols); the calls follow
extent_declare_matrix ==
  /\ stmt = 1
  /\ stmt' = 4
  /\ UNCHANGED <<budget, debug>>
  /\ \E s \in ExtentShapes : matrix_new(s[1], s[2])

\* mat.updateCPU(); / mat.updateGPU(); past the end of an array
client_update_past == ClientCall /\ \E b \in Bufs : call_update_past(b)

NextExtent ==
  \/ extent_declare_matrix
  \/ enter_data_copyin_this
  \/ enter_data_create
  \/ client_init
  \/ init_step
  \/ init_step_past
  \/ init_return
  \/ client_updateCPU
  \/ client_updateGPU
  \/ client_update_past

SpecExtent == InitExtent /\ [][NextExtent]_vars


(***************************************************************************)
(* C18: the allocated extent and the transferred extent                    *)
(***************************************************************************)

\* the matrix has been constructed: both arrays exist
MatBuilt == alloc["mat"].data = "live" /\ alloc["mat"].dev_data = "live"

\* the last call ran past the end of an array of mat
RanPast == last.buf = "mat" /\ last.res = "past"

\* C18: for every matrix constructed with two ints from 0 on, the element
\* count of the host array and of the mirror (the int product _nx*_ny)
\* equals the element count nx*ny that updateCPU and updateGPU transfer and
\* that init iterates over, and no transfer or fill runs past the end of
\* an array.
C18_AllocatedIsTransferred ==
  /\ MatBuilt =>
       /\ Extent(data["mat"]) = UpdateCount("mat")
       /\ Extent(dev_data["mat"]) = UpdateCount("mat")
       /\ Extent(dev_data["mat"]) = Cardinality(InitSpace("mat"))
  /\ ~RanPast

=============================================================================
